---------------------------- MODULE Spec2Model ----------------------------
(***************************************************************************)
(* Cantilever beam sizing calculator (src/caca.py).                        *)
(*                                                                         *)
(* The program computes with Python floats.  The model computes with      *)
(* fixed-point integers: every quantity is an integer number of units,    *)
(*     lengths       1e-10 m   (LenExp),                                   *)
(*     deflections   1e-13 m   (DefExp),                                   *)
(*     forces        1e-6  N   (ForceExp),                                 *)
(*     moduli        1e3   Pa  (ModExp),                                   *)
(*     stresses      1     Pa,                                             *)
(*     K-factors     1e-3      (KExp),                                     *)
(* and every formula returns the floor of the exact real value of the     *)
(* source expression, clamped to 2^31-1. Intermediate products do not    *)
(* fit a machine integer, so they are kept as naturals in limbs.          *)
(***************************************************************************)
EXTENDS Integers, Sequences, FiniteSets, TLC

VARIABLES
    cfg,             \* the USER INPUTS (src/caca.py 88-102)
    pc,              \* position in the script / in the running function
    lower_bound,     \* bisection bracket (find_min_thickness, optimize_buckling)
    upper_bound,
    change,          \* bisection midpoint; Unbound before the first iteration
    local_bh,        \* optimize_buckling's local buckling_height
    equal_value,     \* module-level base thickness
    height,          \* module-level height
    stress,          \* module-level stress
    buckling_height, \* module-level buckling_height
    deflection,      \* module-level deflection (line 129)
    hist,            \* history of the run (observation only)
    call,            \* a direct call of a Formula Library function
    ret              \* its outcome

vars == <<cfg, pc, lower_bound, upper_bound, change, local_bh, equal_value,
          height, stress, buckling_height, deflection, hist, call, ret>>

-----------------------------------------------------------------------------
(* Naturals in limbs, least significant first; <<>> is zero.              *)

BASE == 10 ^ 4

Abs(x) == IF x < 0 THEN -x ELSE x

Sgn(x) == IF x > 0 THEN 1 ELSE IF x < 0 THEN -1 ELSE 0

Max2(p, q) == IF p > q THEN p ELSE q

Min2(p, q) == IF p < q THEN p ELSE q

BigOfInt(k) ==
    IF k = 0 THEN <<>>
    ELSE IF k < BASE THEN <<k>>
    ELSE IF k < BASE * BASE THEN <<k % BASE, k \div BASE>>
    ELSE <<k % BASE, (k \div BASE) % BASE, k \div (BASE * BASE)>>

RECURSIVE ConvSum(_, _, _, _, _)
ConvSum(a, b, k, i, hi) ==
    IF i > hi THEN 0 ELSE a[i] * b[k + 1 - i] + ConvSum(a, b, k, i + 1, hi)

RECURSIVE Carry(_, _, _)
Carry(c, i, carry) ==
    IF i > Len(c)
    THEN IF carry = 0 THEN <<>>
         ELSE <<carry % BASE>> \o Carry(c, i, carry \div BASE)
    ELSE LET t == c[i] + carry
         IN  <<t % BASE>> \o Carry(c, i + 1, t \div BASE)

BigMul(a, b) ==
    IF a = <<>> \/ b = <<>> THEN <<>>
    ELSE LET la == Len(a)
             lb == Len(b)
             c == [k \in 1..(la + lb - 1) |->
                      ConvSum(a, b, k, Max2(1, k + 1 - lb), Min2(k, la))]
         IN  Carry(c, 1, 0)

RECURSIVE LeqFrom(_, _, _)
LeqFrom(a, b, i) ==
    IF i = 0 THEN TRUE
    ELSE IF a[i] # b[i] THEN a[i] < b[i]
    ELSE LeqFrom(a, b, i - 1)

BigLeq(a, b) ==
    IF Len(a) # Len(b) THEN Len(a) < Len(b) ELSE LeqFrom(a, b, Len(a))

\* The product of the absolute values of a tuple of integers.
RECURSIVE Mag(_)
Mag(s) ==
    IF s = <<>> THEN <<1>>
    ELSE BigMul(BigOfInt(Abs(Head(s))), Mag(Tail(s)))

\* The sign of the product of a tuple of integers.
RECURSIVE SgnAll(_)
SgnAll(s) == IF s = <<>> THEN 1 ELSE Sgn(Head(s)) * SgnAll(Tail(s))

\* 10^n
RECURSIVE BigTen(_)
BigTen(n) == IF n = 0 THEN <<1>> ELSE BigMul(<<10>>, BigTen(n - 1))

RECURSIVE BigPow(_, _)
BigPow(a, n) == IF n = 0 THEN <<1>> ELSE BigMul(a, BigPow(a, n - 1))

\* The largest r in 0..2^31-1 with r^n * den <= num, built bit by bit:
\* floor((num/den)^(1/n)), clamped to 2^31-1.
RECURSIVE RootBits(_, _, _, _, _)
RootBits(n, num, den, r, k) ==
    IF k < 0 THEN r
    ELSE LET t == r + 2 ^ k
         IN  IF BigLeq(BigMul(BigPow(BigOfInt(t), n), den), num)
             THEN RootBits(n, num, den, t, k - 1)
             ELSE RootBits(n, num, den, r, k - 1)

RootFloor(n, num, den) ==
    LET N == CHOOSE v \in {num} : TRUE      \* num and den, evaluated once
        D == CHOOSE v \in {den} : TRUE
    IN  RootBits(n, N, D, 0, 30)

-----------------------------------------------------------------------------
(* Units.                                                                  *)

LenExp == 10

DefExp == 13

ForceExp == 6

ModExp == 3

KExp == 3

\* math.pi as PiNum / 10^PiExp
PiNum == 314159265

PiExp == 8

-----------------------------------------------------------------------------
(* Formula Library.  An outcome is a real value, a raised exception, or   *)
(* the complex number Python's ** returns for a negative base and a       *)
(* fractional exponent.                                                    *)

Real(v) == [kind |-> "real", val |-> v]

Raise(e) == [kind |-> e, val |-> 0]

Complex == [kind |-> "complex", val |-> 0]

\* def cantilever(d, P, L, a, E, b)
cantilever(d, P, L, a, E, b) ==
    LET I_num == <<P, a, a, 3 * L - a>>          \* P*a**2*(3*L-a)
        I_den == <<6, E, d>>                     \* 6*E*d
    IN  IF SgnAll(I_den) = 0 THEN Raise("ZeroDivisionError")
        ELSE IF b = 0 THEN Raise("ZeroDivisionError")
        ELSE IF SgnAll(I_num) * SgnAll(I_den) * Sgn(b) < 0 THEN Complex
        ELSE Real(RootFloor(3,
                 BigMul(Mag(<<12>> \o I_num),
                        BigTen(LenExp + DefExp - ForceExp - ModExp)),
                 Mag(I_den \o <<b>>)))

\* def buckling(P, E, K, b, h)
buckling(P, E, K, b, h) ==
    LET den == <<6, K, P>>                       \* 6*K*P
        rad == <<3, E, b, h, P>>                 \* 3*E*b*h*P
    IN  IF SgnAll(den) = 0 THEN Raise("ZeroDivisionError")
        ELSE IF SgnAll(rad) < 0 THEN Complex
        ELSE Real(Sgn(h) * SgnAll(den) * RootFloor(2,
                 Mag(<<PiNum, PiNum, h, h>> \o rad),
                 BigMul(Mag(den \o den),
                        BigTen(2 * PiExp + 2 * LenExp
                               - 2 * KExp - ForceExp - ModExp))))

\* def fatigue_stress(y, P, L, b, h)
fatigue_stress(y, P, L, b, h) ==
    LET num == <<y, P, L>>                       \* y * P * L
        den == <<b, h, h, h>>                    \* 1/12*b*h**3
    IN  IF SgnAll(den) = 0 THEN Raise("ZeroDivisionError")
        ELSE Real(SgnAll(num) * SgnAll(den) * RootFloor(1,
                 BigMul(Mag(<<12>> \o num), BigTen(2 * LenExp - ForceExp)),
                 Mag(den)))

-----------------------------------------------------------------------------
(* USER INPUTS (lines 85-102).                                             *)

num_arms == 12

TotalForce == 4300

TotalStressForce == 2900

youngs_modulus == 71000000

buckling_constant == 500

max_stress == 525000000

cantilever_length == 100000000

maximum_cantilever_height == 100000000

DeflectionRatio == 180

\* floor(a * 10^e / b)
FixDiv(a, e, b) == RootFloor(1, BigMul(Mag(<<a>>), BigTen(e)), Mag(<<b>>))

distributed_force == FixDiv(TotalForce, ForceExp, num_arms)

stress_force == FixDiv(TotalStressForce, ForceExp, num_arms)

\* Dependents (lines 100-102)
WithDependents(c) ==
    [num_arms |-> c.num_arms,
     youngs_modulus |-> c.youngs_modulus,
     buckling_constant |-> c.buckling_constant,
     distributed_force |-> c.distributed_force,
     stress_force |-> c.stress_force,
     max_stress |-> c.max_stress,
     cantilever_length |-> c.cantilever_length,
     maximum_cantilever_height |-> c.maximum_cantilever_height,
     buckling_base |-> c.cantilever_length,
     distance_applied |-> c.cantilever_length,
     allowable_deflection |->
         FixDiv(c.cantilever_length, DefExp - LenExp, DeflectionRatio)]

\* Bounds of the inputs the model draws.
MaxStressDiv == 5

\* The source's inputs, with the material, the available height and the
\* fatigue limit varied.
YoungsModuli == {youngs_modulus, youngs_modulus \div 100, 10000}

MaxHeights == {maximum_cantilever_height, 10 * maximum_cantilever_height}

MaxStresses == {max_stress \div (8 ^ i) : i \in 0..MaxStressDiv}

\* max_stress is first read at line 116; the model draws it there, and
\* NotRead stands for it until then.
NotRead == 0

Configs ==
    {WithDependents(c) : c \in
        [num_arms : {num_arms},
         youngs_modulus : YoungsModuli,
         buckling_constant : {buckling_constant},
         distributed_force : {distributed_force},
         stress_force : {stress_force},
         max_stress : {NotRead},
         cantilever_length : {cantilever_length},
         maximum_cantilever_height : MaxHeights]}

-----------------------------------------------------------------------------
(* The functions of the program.                                           *)

\* The value of a local variable that no assignment has bound yet.
Unbound == -1

\* epsilon (lines 37, 70), lower_bound, upper_bound (lines 38-39)
epsilon == 1000

LowerInit == 120000000

UpperInit == 1000000000

\* (lower_bound + upper_bound) / 2
Mid(lo, up) == (lo + up) \div 2

\* def calculations(...)
calculations(distributed_force_, allowable_deflection_, cantilever_length_, distance_applied_, youngs_modulus_, buckling_constant_, buckling_base_, change_) ==
    [cantilever_height |->
         cantilever(allowable_deflection_, distributed_force_,
                    cantilever_length_, distance_applied_, youngs_modulus_,
                    change_).val,
     buckling_length |->
         buckling(distributed_force_, youngs_modulus_, buckling_constant_,
                  buckling_base_, change_).val]

\* calculations() at a candidate base, with the arguments line 43 passes
CalcAt(c, ch) ==
    calculations(c.distributed_force, c.allowable_deflection,
                 c.cantilever_length, c.distance_applied, c.youngs_modulus,
                 c.buckling_constant, c.buckling_base, ch)

\* Variant of Infeasible: the test of line 47 without its second clause.
InfeasibleNoCeiling(c, ch) ==
    LET r == CalcAt(c, ch)
    IN  r.cantilever_height >= r.buckling_length

\* line 47: the condition under which the lower bound is raised
Infeasible(c, ch) ==
    LET r == CalcAt(c, ch)
    IN  \/ r.cantilever_height >= r.buckling_length
        \/ r.cantilever_height >= c.maximum_cantilever_height

\* line 41: while (upper_bound - lower_bound > epsilon)
SolverContinues(lo, up) == up - lo > epsilon

\* Variant of SolverBranch: the two assignments of lines 48 and 50 exchanged.
SolverBranchSwapped(infeasible, lo, up, ch) ==
    IF infeasible THEN [lower |-> lo, upper |-> ch]
    ELSE [lower |-> ch, upper |-> up]

\* lines 47-50: the new bracket
SolverBranch(infeasible, lo, up, ch) ==
    IF infeasible THEN [lower |-> ch, upper |-> up]
    ELSE [lower |-> lo, upper |-> ch]

\* line 57: min_height
MinHeight(stress_force_, cantilever_length_, cantilever_base, max_stress_) ==
    RootFloor(2,
        BigMul(Mag(<<6, cantilever_length_, stress_force_,
                     cantilever_base, max_stress_>>),
               BigTen(2 * LenExp - ForceExp)),
        Mag(<<cantilever_base, max_stress_, cantilever_base, max_stress_>>))

\* line 64: stress_base
StressBase(stress_force_, cantilever_length_, min_height, max_stress_) ==
    RootFloor(1,
        BigMul(Mag(<<6, cantilever_length_, stress_force_>>),
               BigTen(2 * LenExp - ForceExp)),
        Mag(<<max_stress_, min_height, min_height>>))

\* Variant of optimize_stress: the test of line 59 left out, the height never
\* clamped.
optimize_stress_unclamped(stress_force_, cantilever_length_, cantilever_base, maximum_cantilever_height_, max_stress_) ==
    <<MinHeight(stress_force_, cantilever_length_, cantilever_base, max_stress_),
      cantilever_base>>

\* def optimize_stress(...): <<height, base>>
optimize_stress(stress_force_, cantilever_length_, cantilever_base, maximum_cantilever_height_, max_stress_) ==
    LET min_height == MinHeight(stress_force_, cantilever_length_,
                                cantilever_base, max_stress_)
    IN  IF min_height <= maximum_cantilever_height_
        THEN <<min_height, cantilever_base>>
        ELSE <<maximum_cantilever_height_,
               StressBase(stress_force_, cantilever_length_,
                          maximum_cantilever_height_, max_stress_)>>

\* The fatigue limits the model gives a configuration: those of MaxStresses
\* under which the base of line 64 stays within the lengths the model
\* represents (below 2^31 units, 0.21 m).
StressLimits(c) ==
    {limit \in MaxStresses :
        StressBase(c.stress_force, c.cantilever_length,
                   c.maximum_cantilever_height, limit) < 2147483647}

\* line 68: buckling_height of optimize_buckling
BucklingDerivedBase(height_, distributed_force_, buckling_constant_, cantilever_length_, youngs_modulus_) ==
    RootFloor(3,
        BigMul(Mag(<<12, distributed_force_, buckling_constant_, height_,
                     buckling_constant_, height_>>),
               BigTen(2 * PiExp + 2 * LenExp
                      - ForceExp - 2 * KExp - ModExp)),
        Mag(<<cantilever_length_, PiNum, PiNum, youngs_modulus_>>))

\* line 73: while (upper_bound - lower_bound > epsilon)
BucklingContinues(lo, up) == up - lo > epsilon

\* line 75: the stress at a trial height
TrialStress(c, bh, ch) ==
    fatigue_stress(ch \div 2, c.stress_force, c.cantilever_length, bh, ch).val

\* lines 77-80: the new bracket
BucklingBranch(stress_, max_stress_, lo, up, ch) ==
    IF stress_ < max_stress_ THEN [lower |-> lo, upper |-> ch]
    ELSE [lower |-> ch, upper |-> up]

\* line 129
Deflection(c, b, h) ==
    RootFloor(1,
        BigMul(Mag(<<12, c.distributed_force, c.distance_applied,
                     c.distance_applied,
                     3 * c.cantilever_length - c.distance_applied>>),
               BigTen(LenExp + DefExp - ForceExp - ModExp)),
        Mag(<<6, c.youngs_modulus, b, h, h, h>>))

-----------------------------------------------------------------------------
(* The script (lines 106-130), one action per step.                        *)

NoCall == [fn |-> "none", args |-> <<>>]

NoRet == [kind |-> "none", val |-> 0]

Hist0(entry) ==
    [entry |-> entry,          \* what was invoked
     stages |-> <<>>,          \* the steps taken, in order
     iters |-> 0,              \* iterations of the running loop
     mids |-> <<>>,            \* the midpoints the solver evaluated
     solved |-> <<0, 0>>,      \* <<base, height>> after lines 109-112
     stressed |-> <<0, 0>>,    \* <<base, height>> after lines 115-117
     checked_bh |-> 0,         \* buckling_height of line 120
     input_base |-> 0,         \* the base optimize_stress was given
     input_height |-> 0]       \* the height optimize_buckling was given

\* Where a function returns to: the script's next line, or the direct caller.
ReturnTo(line) == IF hist.entry = "main" THEN line ELSE "returned"

\* The state at line 109, entering find_min_thickness.
Init ==
    /\ cfg \in Configs
    /\ pc = "find_min_thickness"
    /\ lower_bound = LowerInit
    /\ upper_bound = UpperInit
    /\ change = Unbound
    /\ local_bh = 0
    /\ equal_value = 0
    /\ height = 0
    /\ stress = 0
    /\ buckling_height = 0
    /\ deflection = 0
    /\ hist = Hist0("main")
    /\ call = NoCall
    /\ ret = NoRet

\* lines 41-50: one iteration of find_min_thickness
SolverStep ==
    /\ pc = "find_min_thickness"
    /\ SolverContinues(lower_bound, upper_bound)
    /\ \E ch \in {Mid(lower_bound, upper_bound)} :
       \E nb \in {SolverBranch(Infeasible(cfg, ch),
                                lower_bound, upper_bound, ch)} :
           /\ change' = ch
           /\ lower_bound' = nb.lower
           /\ upper_bound' = nb.upper
           /\ hist' = [hist EXCEPT !.iters = @ + 1, !.mids = Append(@, ch)]
    /\ UNCHANGED <<cfg, pc, local_bh, equal_value, height, stress,
                   buckling_height, deflection, call, ret>>

\* lines 53, 109, 112: find_min_thickness returns; the height follows
SolverReturn ==
    /\ pc = "find_min_thickness"
    /\ ~SolverContinues(lower_bound, upper_bound)
    /\ IF change = Unbound
       THEN /\ pc' = "UnboundLocalError"
            /\ UNCHANGED <<equal_value, height, hist>>
       ELSE \E h \in {cantilever(cfg.allowable_deflection,
                                  cfg.distributed_force, cfg.cantilever_length,
                                  cfg.distance_applied, cfg.youngs_modulus,
                                  change).val} :
                /\ equal_value' = change
                /\ height' = h
                /\ pc' = "stress_check"
                /\ hist' = [hist EXCEPT !.stages = Append(@, "solve"),
                                        !.solved = <<change, h>>]
    /\ UNCHANGED <<cfg, lower_bound, upper_bound, change, local_bh, stress,
                   buckling_height, deflection, call, ret>>

\* lines 115-116
StressCheck ==
    /\ pc = "stress_check"
    /\ \E limit \in StressLimits(cfg) :
          cfg' = [cfg EXCEPT !.max_stress = limit]
    /\ \E st \in {fatigue_stress(height \div 2, cfg.stress_force,
                                   cfg.cantilever_length, equal_value,
                                   height).val} :
           /\ stress' = st
           /\ pc' = IF st > cfg'.max_stress THEN "optimize_stress"
                    ELSE "buckling_check"
    /\ hist' = [hist EXCEPT !.stages = Append(@, "stress_check"),
                            !.stressed = <<equal_value, height>>]
    /\ UNCHANGED <<lower_bound, upper_bound, change, local_bh,
                   equal_value, height, buckling_height, deflection, call, ret>>

\* line 117
OptimizeStress ==
    /\ pc = "optimize_stress"
    /\ \E r \in {optimize_stress(cfg.stress_force, cfg.cantilever_length,
                                  equal_value, cfg.maximum_cantilever_height,
                                  cfg.max_stress)} :
           /\ height' = r[1]
           /\ equal_value' = r[2]
           /\ hist' = [hist EXCEPT !.stages = Append(@, "optimize_stress"),
                                   !.stressed = <<r[2], r[1]>>,
                                   !.input_base = equal_value]
    /\ pc' = ReturnTo("buckling_check")
    /\ UNCHANGED <<cfg, lower_bound, upper_bound, change, local_bh, stress,
                   buckling_height, deflection, call, ret>>

\* Variant of BucklingCheckBase: the base as find_min_thickness returned it.
BucklingCheckBaseSolved == hist.solved[1]

\* line 120: the base the buckling check is made at
BucklingCheckBase == equal_value

\* lines 120-121
BucklingCheck ==
    /\ pc = "buckling_check"
    /\ \E bh \in {buckling(cfg.distributed_force, cfg.youngs_modulus,
                             cfg.buckling_constant, cfg.buckling_base,
                             BucklingCheckBase).val} :
           /\ buckling_height' = bh
           /\ pc' = IF height > bh THEN "optimize_buckling" ELSE "report"
           /\ hist' = [hist EXCEPT !.stages = Append(@, "buckling_check"),
                                   !.checked_bh = bh]
    /\ UNCHANGED <<cfg, lower_bound, upper_bound, change, local_bh,
                   equal_value, height, stress, deflection, call, ret>>

\* lines 67-72: optimize_buckling is entered
BucklingEnter ==
    /\ pc = "optimize_buckling"
    /\ local_bh' = BucklingDerivedBase(height, cfg.distributed_force,
                                       cfg.buckling_constant,
                                       cfg.cantilever_length,
                                       cfg.youngs_modulus)
    /\ lower_bound' = 0
    /\ upper_bound' = height
    /\ change' = Unbound
    /\ pc' = "buckling_loop"
    /\ hist' = [hist EXCEPT !.stages = Append(@, "optimize_buckling"),
                            !.iters = 0, !.input_height = height]
    /\ UNCHANGED <<cfg, equal_value, height, stress, buckling_height,
                   deflection, call, ret>>

\* lines 73-80: one iteration of optimize_buckling
BucklingStep ==
    /\ pc = "buckling_loop"
    /\ BucklingContinues(lower_bound, upper_bound)
    /\ \E ch \in {Mid(lower_bound, upper_bound)} :
       \E nb \in {BucklingBranch(TrialStress(cfg, local_bh, ch),
                                  cfg.max_stress, lower_bound, upper_bound,
                                  ch)} :
           /\ change' = ch
           /\ lower_bound' = nb.lower
           /\ upper_bound' = nb.upper
    /\ hist' = [hist EXCEPT !.iters = @ + 1]
    /\ UNCHANGED <<cfg, pc, local_bh, equal_value, height, stress,
                   buckling_height, deflection, call, ret>>

\* lines 81, 122: optimize_buckling returns change, buckling_height
BucklingReturn ==
    /\ pc = "buckling_loop"
    /\ ~BucklingContinues(lower_bound, upper_bound)
    /\ IF change = Unbound
       THEN /\ pc' = "UnboundLocalError"
            /\ UNCHANGED <<height, equal_value>>
       ELSE /\ height' = change
            /\ equal_value' = local_bh
            /\ pc' = ReturnTo("report")
    /\ UNCHANGED <<cfg, lower_bound, upper_bound, change, local_bh, stress,
                   buckling_height, deflection, hist, call, ret>>

\* lines 125-130: the result and its three constraint values
Report ==
    /\ pc = "report"
    /\ stress' = fatigue_stress(height \div 2, cfg.stress_force,
                                cfg.cantilever_length, equal_value, height).val
    /\ buckling_height' = buckling(cfg.distributed_force, cfg.youngs_modulus,
                                   cfg.buckling_constant, cfg.buckling_base,
                                   equal_value).val
    /\ deflection' = Deflection(cfg, equal_value, height)
    /\ pc' = "done"
    /\ hist' = [hist EXCEPT !.stages = Append(@, "report")]
    /\ UNCHANGED <<cfg, lower_bound, upper_bound, change, local_bh,
                   equal_value, height, call, ret>>

Next ==
    \/ SolverStep
    \/ SolverReturn
    \/ StressCheck
    \/ OptimizeStress
    \/ BucklingCheck
    \/ BucklingEnter
    \/ BucklingStep
    \/ BucklingReturn
    \/ Report

Spec == Init /\ [][Next]_vars

-----------------------------------------------------------------------------
(* Direct calls of the functions, with arguments drawn from bounded sets.  *)

MaxForceDiv == 3

MaxBaseMul == 4

MaxCeilMul == 2

MaxHeightExp == 8

MaxArg == 1

CallCfg(E, F, S, H) ==
    WithDependents(
        [num_arms |-> num_arms,
         youngs_modulus |-> E,
         buckling_constant |-> buckling_constant,
         distributed_force |-> distributed_force,
         stress_force |-> F,
         max_stress |-> S,
         cantilever_length |-> cantilever_length,
         maximum_cantilever_height |-> H])

\* optimize_stress(stress_force, cantilever_length, cantilever_base,
\*                 maximum_cantilever_height, max_stress) is called
InitStress ==
    /\ \E i \in 1..MaxForceDiv, k \in 1..MaxCeilMul :
          LET c == CallCfg(youngs_modulus, stress_force \div i, NotRead,
                           k * maximum_cantilever_height)
          IN  \E limit \in StressLimits(c) :
                  cfg = [c EXCEPT !.max_stress = limit]
    /\ \E j \in 1..MaxBaseMul : equal_value = j * LowerInit
    /\ pc = "optimize_stress"
    /\ lower_bound = 0
    /\ upper_bound = 0
    /\ change = Unbound
    /\ local_bh = 0
    /\ height = 0
    /\ stress = 0
    /\ buckling_height = 0
    /\ deflection = 0
    /\ hist = Hist0("optimize_stress")
    /\ call = NoCall
    /\ ret = NoRet

NextStress == OptimizeStress

SpecStress == InitStress /\ [][NextStress]_vars

\* The heights optimize_buckling is called with: epsilon * 4^k and half as
\* much again.
BucklingCallHeights ==
    {(m * epsilon * 4 ^ k) \div 2 : m \in {2, 3}, k \in 0..MaxHeightExp}

\* optimize_buckling(height, distributed_force, buckling_constant,
\*                   cantilever_length, youngs_modulus, stress_force,
\*                   cantilever_base, max_stress) is called
InitBuckling ==
    /\ \E E \in {youngs_modulus, 10000}, F \in {stress_force, 1} :
          cfg = CallCfg(E, F, max_stress, maximum_cantilever_height)
    /\ height \in BucklingCallHeights
    /\ equal_value = LowerInit
    /\ pc = "optimize_buckling"
    /\ lower_bound = 0
    /\ upper_bound = 0
    /\ change = Unbound
    /\ local_bh = 0
    /\ stress = 0
    /\ buckling_height = 0
    /\ deflection = 0
    /\ hist = Hist0("optimize_buckling")
    /\ call = NoCall
    /\ ret = NoRet

NextBuckling == BucklingEnter \/ BucklingStep \/ BucklingReturn

SpecBuckling == InitBuckling /\ [][NextBuckling]_vars

\* The script and the direct calls of optimize_buckling: both bisection
\* loops.
InitLoops == Init \/ InitBuckling

SpecLoops == InitLoops /\ [][Next]_vars

\* Direct calls of the formulas.
ArgValues == (-1)..MaxArg

FormulaCalls ==
    {[fn |-> "cantilever", args |-> <<d, P, 1, 1, E, b>>] :
        d \in ArgValues, P \in ArgValues, E \in ArgValues, b \in ArgValues}
    \cup
    {[fn |-> "buckling", args |-> <<P, E, 1, b, h>>] :
        P \in ArgValues, E \in ArgValues, b \in ArgValues, h \in ArgValues}
    \cup
    {[fn |-> "fatigue_stress", args |-> <<y, P, 1, b, h>>] :
        y \in ArgValues, P \in ArgValues, b \in ArgValues, h \in ArgValues}

InitFormula ==
    /\ call \in FormulaCalls
    /\ ret = NoRet
    /\ pc = "call"
    /\ cfg = CallCfg(youngs_modulus, stress_force, max_stress,
                     maximum_cantilever_height)
    /\ lower_bound = 0
    /\ upper_bound = 0
    /\ change = Unbound
    /\ local_bh = 0
    /\ equal_value = 0
    /\ height = 0
    /\ stress = 0
    /\ buckling_height = 0
    /\ deflection = 0
    /\ hist = Hist0("formula")

Pipeline == <<cfg, lower_bound, upper_bound, change, local_bh, equal_value,
              height, stress, buckling_height, deflection, hist>>

CallCantilever ==
    /\ pc = "call"
    /\ call.fn = "cantilever"
    /\ ret' = cantilever(call.args[1], call.args[2], call.args[3],
                         call.args[4], call.args[5], call.args[6])
    /\ pc' = "returned"
    /\ UNCHANGED <<call, Pipeline>>

CallBuckling ==
    /\ pc = "call"
    /\ call.fn = "buckling"
    /\ ret' = buckling(call.args[1], call.args[2], call.args[3],
                       call.args[4], call.args[5])
    /\ pc' = "returned"
    /\ UNCHANGED <<call, Pipeline>>

CallFatigueStress ==
    /\ pc = "call"
    /\ call.fn = "fatigue_stress"
    /\ ret' = fatigue_stress(call.args[1], call.args[2], call.args[3],
                             call.args[4], call.args[5])
    /\ pc' = "returned"
    /\ UNCHANGED <<call, Pipeline>>

NextFormula == CallCantilever \/ CallBuckling \/ CallFatigueStress

SpecFormula == InitFormula /\ [][NextFormula]_vars

-----------------------------------------------------------------------------
(* The properties.                                                         *)

Range(s) == {s[i] : i \in DOMAIN s}

Ran(stage) == stage \in Range(hist.stages)

\* The height the deflection limit requires at base b.
RequiredHeight(c, b) ==
    cantilever(c.allowable_deflection, c.distributed_force,
               c.cantilever_length, c.distance_applied, c.youngs_modulus, b).val

\* The buckling-critical length at base b.
CriticalLength(c, b) ==
    buckling(c.distributed_force, c.youngs_modulus, c.buckling_constant,
             c.buckling_base, b).val

\* The fatigue stress of a beam of base b and height h.
StressAt(c, b, h) ==
    fatigue_stress(h \div 2, c.stress_force, c.cantilever_length, b, h).val

\* x <= y, up to one part in a million of y
LeqRel(x, y) == x - y <= y \div (10 ^ 6)

\* C1: when the script has finished, the final pair satisfies all three
\* constraints at once: height <= the buckling-critical length of the final
\* base, stress <= max_stress, height <= maximum_cantilever_height (each up to
\* one part in a million, so that no rounding of the last digit counts).
C1_FinalInvariant ==
    pc = "done" =>
        /\ LeqRel(height, buckling_height)
        /\ LeqRel(stress, cfg.max_stress)
        /\ LeqRel(height, cfg.maximum_cantilever_height)

\* C3: the base find_min_thickness returns is feasible: the height derived
\* from it is <= the buckling-critical length at that base, within 1e-6
\* relative.
C3_ReturnedBaseFeasible ==
    pc = "stress_check" =>
        LeqRel(hist.solved[2], CriticalLength(cfg, hist.solved[1]))

StageRank(stage) ==
    CASE stage = "solve" -> 1
      [] stage = "stress_check" -> 2
      [] stage = "optimize_stress" -> 3
      [] stage = "buckling_check" -> 4
      [] stage = "optimize_buckling" -> 5
      [] stage = "report" -> 6

\* C7: the stages run in the order solve, stress check, [stress corrector],
\* buckling check, [buckling corrector], report, each at most once; the
\* stress corrector runs iff the stress of the solved pair is > max_stress;
\* the buckling check uses the base as the stress step left it; the buckling
\* corrector runs iff the height is > that critical length.
C7_StageOrder ==
    hist.entry = "main" =>
        /\ \A i \in 1..(Len(hist.stages) - 1) :
              StageRank(hist.stages[i]) < StageRank(hist.stages[i + 1])
        /\ hist.stages # <<>> => hist.stages[1] = "solve"
        /\ Ran("optimize_stress") \/ Ran("buckling_check") => Ran("stress_check")
        /\ Ran("optimize_buckling") \/ Ran("report") => Ran("buckling_check")
        /\ pc = "done" <=> Ran("report")
        /\ pc = "done" =>
              /\ Ran("optimize_stress") <=>
                    StressAt(cfg, hist.solved[1], hist.solved[2]) > cfg.max_stress
              /\ ~Ran("optimize_stress") => hist.stressed = hist.solved
              /\ Ran("optimize_stress") =>
                    LET r == optimize_stress(cfg.stress_force,
                                 cfg.cantilever_length, hist.solved[1],
                                 cfg.maximum_cantilever_height, cfg.max_stress)
                    IN  hist.stressed = <<r[2], r[1]>>
              /\ hist.checked_bh = CriticalLength(cfg, hist.stressed[1])
              /\ Ran("optimize_buckling") <=> hist.stressed[2] > hist.checked_bh

\* C7 witness: a finished run in which the stress corrector changed the base
\* before the buckling check.
C7_Witness ==
    /\ pc = "done"
    /\ Ran("optimize_stress")
    /\ hist.stressed[1] # hist.solved[1]

\* line 47, as the claims word it: the required height is >= the
\* buckling-critical length or >= the height ceiling
NotFeasible(c, b) ==
    \/ RequiredHeight(c, b) >= CriticalLength(c, b)
    \/ RequiredHeight(c, b) >= c.maximum_cantilever_height

NoFeasibleMidpoint ==
    /\ hist.mids # <<>>
    /\ \A i \in DOMAIN hist.mids : NotFeasible(cfg, hist.mids[i])

\* C8 (as amended): if every midpoint of the bracket is infeasible,
\* find_min_thickness still returns normally, and the base it returns is
\* within epsilon of the UPPER bound 0.1.
C8_ConvergesToUpper ==
    (pc = "stress_check" \/ pc = "UnboundLocalError") /\ NoFeasibleMidpoint =>
        /\ pc = "stress_check"
        /\ UpperInit - hist.solved[1] <= epsilon

C8_Witness ==
    /\ pc = "stress_check"
    /\ NoFeasibleMidpoint
    /\ hist.solved[1] > LowerInit + epsilon

\* C8 (as claimed): if every midpoint of the bracket is infeasible,
\* find_min_thickness returns normally a base within epsilon of the lower
\* bound 0.012.
C8_ConvergesToLower ==
    (pc = "stress_check" \/ pc = "UnboundLocalError") /\ NoFeasibleMidpoint =>
        /\ pc = "stress_check"
        /\ hist.solved[1] - LowerInit <= epsilon

\* The bases at which C2 compares the returned base with the feasible set:
\* one and two tolerances to either side of it, and a grid over the bracket.
MaxProbe == 4

Probes(b) ==
    {p \in {b - 2 * epsilon, b - epsilon, b + epsilon, b + 2 * epsilon}
           \cup {LowerInit + i * ((UpperInit - LowerInit) \div MaxProbe) :
                    i \in 0..MaxProbe} :
        p >= LowerInit /\ p <= UpperInit}

\* Feasibility as C2 words it.
Feasible(c, b) ==
    /\ RequiredHeight(c, b) < CriticalLength(c, b)
    /\ RequiredHeight(c, b) <= c.maximum_cantilever_height

FeasibleAt(b) == [p \in Probes(b) |-> Feasible(cfg, p)]

Monotone(f) == \A p, q \in DOMAIN f : p < q /\ f[p] => f[q]

\* C2 (as amended): when feasibility is monotone over the bracket,
\* find_min_thickness returns, up to epsilon, the SMALLEST feasible base:
\* every base more than epsilon below it is infeasible, every base more than
\* epsilon above it is feasible.
C2_SmallestFeasible ==
    pc = "stress_check" =>
        LET b == hist.solved[1]
            f == FeasibleAt(b)
        IN  Monotone(f) =>
                \A p \in DOMAIN f : /\ p <= b - epsilon => ~f[p]
                                    /\ p >= b + epsilon => f[p]

\* C2 witness: the returned base separates infeasible bases from feasible
\* ones.
C2_Witness ==
    /\ pc = "stress_check"
    /\ LET b == hist.solved[1]
           f == FeasibleAt(b)
       IN  /\ Monotone(f)
           /\ \E p \in DOMAIN f : p <= b - epsilon /\ ~f[p]
           /\ \E p \in DOMAIN f : p >= b + epsilon /\ f[p]

\* C2 (as claimed): when feasibility is monotone over the bracket,
\* find_min_thickness returns, up to epsilon, the LARGEST feasible base: no
\* base more than epsilon above it is feasible.
C2_LargestFeasible ==
    pc = "stress_check" =>
        LET b == hist.solved[1]
            f == FeasibleAt(b)
        IN  Monotone(f) => \A p \in DOMAIN f : p >= b + epsilon => ~f[p]

\* C4: on return from optimize_stress, for positive inputs, the fatigue
\* stress at the returned (base, height) equals max_stress (lengths are
\* rounded to their unit, which moves the stress by less than one part in
\* 10^5), the returned height is <= the ceiling, and the base is unchanged
\* when the returned height is below the ceiling.
C4_StressAtLimit ==
    (hist.entry = "optimize_stress" /\ pc = "returned") =>
        /\ Abs(StressAt(cfg, equal_value, height) - cfg.max_stress)
              <= cfg.max_stress \div (10 ^ 5)
        /\ height <= cfg.maximum_cantilever_height
        /\ height < cfg.maximum_cantilever_height
              => equal_value = hist.input_base

\* C4 witness: optimize_stress has returned the ceiling as height with a
\* recomputed base.
C4_Witness ==
    /\ hist.entry = "optimize_stress"
    /\ pc = "returned"
    /\ height = cfg.maximum_cantilever_height
    /\ equal_value # hist.input_base

\* C5: at the exit of each bisection loop the bracket is strictly narrower
\* than epsilon, and one more iteration would move the candidate by less
\* than epsilon.
C5_ExitWidthStrict ==
    pc \in {"stress_check", "report", "returned"} =>
        /\ upper_bound - lower_bound < epsilon
        /\ Abs(Mid(lower_bound, upper_bound) - change) < epsilon

\* Whether evaluating the call divides by zero, or takes a root of a
\* negative number.
DomainError(c) ==
    LET a == c.args
    IN  CASE c.fn = "cantilever" ->
                 \* 6*E*d = 0, b = 0, or 12*I/b < 0
                 \/ a[5] = 0 \/ a[1] = 0 \/ a[6] = 0
                 \/ a[2] * a[4] * a[4] * (3 * a[3] - a[4])
                       * a[5] * a[1] * a[6] < 0
          [] c.fn = "buckling" ->
                 \* 6*K*P = 0, or 3*E*b*h*P < 0
                 \/ a[3] = 0 \/ a[1] = 0
                 \/ a[2] * a[4] * a[5] * a[1] < 0
          [] c.fn = "fatigue_stress" ->
                 \* 1/12*b*h**3 = 0
                 a[4] = 0 \/ a[5] = 0

\* C6: a Formula Library call whose evaluation divides by zero or takes a
\* root of a negative number ends in an error and returns no value.
C6_DomainErrorsRaise ==
    (pc = "returned" /\ call # NoCall /\ DomainError(call)) =>
        ret.kind = "ZeroDivisionError"

\* C9: when optimize_buckling returns, the final bracket is no wider than
\* epsilon and holds the returned height, its lower end (if raised) has
\* stress >= max_stress and its upper end (if lowered) stress < max_stress,
\* the returned height does not exceed the input height, and the stress at
\* the returned (base, height) is <= max_stress (up to one part in a
\* million).
C9_CorrectorResult ==
    (hist.entry = "optimize_buckling" /\ pc = "returned") =>
        /\ upper_bound - lower_bound <= epsilon
        /\ lower_bound <= height /\ height <= upper_bound
        /\ lower_bound > 0 =>
              TrialStress(cfg, equal_value, lower_bound) >= cfg.max_stress
        /\ upper_bound < hist.input_height =>
              TrialStress(cfg, equal_value, upper_bound) < cfg.max_stress
        /\ height <= hist.input_height
        /\ LeqRel(StressAt(cfg, equal_value, height), cfg.max_stress)

\* C10: optimize_buckling, called with a positive height, runs its loop body
\* at least once and returns a defined pair.
C10_ReturnsDefinedPair ==
    hist.entry = "optimize_buckling" =>
        /\ pc # "UnboundLocalError"
        /\ pc = "returned" => hist.iters >= 1 /\ change # Unbound

=============================================================================
